---- MODULE Spec2Model ----
(***************************************************************************)
(* StringObfType3Rewriter (angr/analyses/deobfuscator/                     *)
(* string_obf_opt_passes.py): the optimization pass that replaces a        *)
(* type-3 string deobfuscation call by an init_str call and prunes the     *)
(* stack stores and Win64 argument-register writes that staged it.         *)
(*                                                                         *)
(* Positions in statement lists are 1-based here (Python's are 0-based).   *)
(***************************************************************************)
EXTENDS Integers, Sequences, FiniteSets, TLC

VARIABLES
    arch,                          \* self.project.arch.name
    type3_deobfuscated_strings,    \* self.kb.obfuscations.type3_deobfuscated_strings
    custom_strings,                \* self.kb.custom_strings: id i is custom_strings[i + 1]
    graph,                         \* self._graph: block address -> block.statements
    todo,                          \* the rest of list(self._graph) in _analyze's for loop
    pc,                            \* "idle" | "running" | "raised"
    runs,                          \* finished (or aborted) runs of the pass
    updated,                       \* blocks handed to _update_block in the current run
    pb                             \* frame of the latest _process_block call

vars == <<arch, type3_deobfuscated_strings, custom_strings, graph, todo, pc, runs,
          updated, pb>>

-----------------------------------------------------------------------------
(* Bounds of the model *)

MaxBody == 3            \* statements of a block before its last one
MaxContentLen == 4      \* longest decoded byte string
MaxRuns == 2            \* how often the pass is run on the function

(* Program constants *)

spacing == 8
ByteMax == 255

-----------------------------------------------------------------------------
(* AIL expressions and statements (ailment) *)

Const(value, bits, custom_string) ==
    [kind |-> "Const", value |-> value, bits |-> bits, custom_string |-> custom_string]

StackBaseOffset(offset) == [kind |-> "StackBaseOffset", offset |-> offset]

Register(reg_offset) == [kind |-> "Register", reg_offset |-> reg_offset]

Tmp == [kind |-> "Tmp"]

Call(idx, target, args, ret_expr, tags) ==
    [kind |-> "Call", idx |-> idx, target |-> target, args |-> args,
     ret_expr |-> ret_expr, tags |-> tags]

Store(addr, data) == [kind |-> "Store", addr |-> addr, data |-> data]

Assignment(dst, src) == [kind |-> "Assignment", dst |-> dst, src |-> src]

Label == [kind |-> "Label"]

None == [kind |-> "None"]

\* the exception of line 71, in the place of the value it did not produce
IndexError == [kind |-> "IndexError"]

\* archinfo.ArchAMD64().registers[name][0]
ArchAMD64_registers ==
    [rax |-> 16, rcx |-> 24, rdx |-> 32, rbx |-> 40, rsi |-> 64, rdi |-> 72,
     r8 |-> 80, r9 |-> 88]

\* the System V argument registers in place of the Win64 ones
WIN64_REG_ARGS_SysV ==
    { ArchAMD64_registers["rdi"], ArchAMD64_registers["rsi"],
      ArchAMD64_registers["rdx"], ArchAMD64_registers["rcx"] }

WIN64_REG_ARGS ==
    { ArchAMD64_registers["rcx"], ArchAMD64_registers["rdx"],
      ArchAMD64_registers["r8"], ArchAMD64_registers["r9"] }

\* self.project.arch.bits
ArchBits(a) == IF a = "AMD64" THEN 64 ELSE 32

-----------------------------------------------------------------------------
(* kb.custom_strings.allocate: a de-duplicating store, content -> stable id *)

AllocateId(strings, content) ==
    IF \E i \in 1..Len(strings) : strings[i] = content
    THEN (CHOOSE i \in 1..Len(strings) : strings[i] = content) - 1
    ELSE Len(strings)

AllocateStore(strings, content) ==
    IF \E i \in 1..Len(strings) : strings[i] = content
    THEN strings
    ELSE Append(strings, content)

-----------------------------------------------------------------------------
(* _process_block *)

\* lines 85-90: the stores the scan records
IsByteStackStore(stmt) ==
    /\ stmt.kind = "Store"
    /\ stmt.addr.kind = "StackBaseOffset"
    /\ stmt.data.kind = "Const"
    /\ stmt.data.value <= ByteMax

\* a dict that keeps the first position recorded for an offset
DictSet_KeepFirst(d, k, v) ==
    [x \in (DOMAIN d) \cup {k} |-> IF x \in DOMAIN d THEN d[x] ELSE v]

DictSet(d, k, v) == [x \in (DOMAIN d) \cup {k} |-> IF x = k THEN v ELSE d[x]]

EmptyDict == [x \in {} |-> 0]

\* lines 83-91: stack_offset_to_stmtid after the enumerate loop
RECURSIVE CollectStackOffsets(_, _, _)
CollectStackOffsets(statements, idx, d) ==
    IF idx > Len(statements) THEN d
    ELSE CollectStackOffsets(statements, idx + 1,
            IF IsByteStackStore(statements[idx])
            THEN DictSet(d, statements[idx].addr.offset, idx)
            ELSE d)

\* line 92: sorted(stack_offset_to_stmtid)
RECURSIVE Sorted(_)
Sorted(S) ==
    IF S = {} THEN <<>>
    ELSE LET m == CHOOSE x \in S : \A y \in S : x <= y
         IN <<m>> \o Sorted(S \ {m})

Min(a, b) == IF a <= b THEN a ELSE b

\* line 95
Distance(deobf_content, sorted_offsets) ==
    Min(Len(deobf_content) - 2, Len(sorted_offsets) - 1)

\* line 97
WindowMatches(sorted_offsets, start_idx, distance) ==
    sorted_offsets[start_idx] + spacing * distance = sorted_offsets[start_idx + distance]

\* the scan taking the last matching window instead of the first
FindStart_Last(sorted_offsets, distance, start_idx) ==
    LET M == { i \in start_idx..(Len(sorted_offsets) - distance) :
                  WindowMatches(sorted_offsets, i, distance) }
    IN IF M = {} THEN 0 ELSE CHOOSE i \in M : \A j \in M : j <= i

\* lines 96-102: the start index the for loop breaks at, 0 when it runs to its end
RECURSIVE FindStart(_, _, _)
FindStart(sorted_offsets, distance, start_idx) ==
    IF start_idx > Len(sorted_offsets) - distance THEN 0
    ELSE IF WindowMatches(sorted_offsets, start_idx, distance) THEN start_idx
    ELSE FindStart(sorted_offsets, distance, start_idx + 1)

\* lines 100-101: the positions of statements set to None
MarkedPositions(stack_offset_to_stmtid, sorted_offsets, start_idx, distance) ==
    IF start_idx = 0 THEN {}
    ELSE { stack_offset_to_stmtid[sorted_offsets[i]] : i \in start_idx..(start_idx + distance) }

\* the stack-write step guarded by len(deobf_content) >= 2
StackMarked_Ge2(statements, deobf_content) ==
    IF Len(deobf_content) >= 2
    THEN LET stack_offset_to_stmtid == CollectStackOffsets(statements, 1, EmptyDict)
             sorted_offsets == Sorted(DOMAIN stack_offset_to_stmtid)
         IN IF sorted_offsets # <<>>
            THEN LET distance == Distance(deobf_content, sorted_offsets)
                 IN MarkedPositions(stack_offset_to_stmtid, sorted_offsets,
                                    FindStart(sorted_offsets, distance, 1), distance)
            ELSE {}
    ELSE {}

\* lines 82-102: every position the stack-write step sets to None
StackMarked(statements, deobf_content) ==
    IF Len(deobf_content) > 2
    THEN LET stack_offset_to_stmtid == CollectStackOffsets(statements, 1, EmptyDict)
             sorted_offsets == Sorted(DOMAIN stack_offset_to_stmtid)
         IN IF sorted_offsets # <<>>
            THEN LET distance == Distance(deobf_content, sorted_offsets)
                 IN MarkedPositions(stack_offset_to_stmtid, sorted_offsets,
                                    FindStart(sorted_offsets, distance, 1), distance)
            ELSE {}
    ELSE {}

\* line 101
SetNone(statements, marked) ==
    [i \in 1..Len(statements) |-> IF i \in marked THEN None ELSE statements[i]]

\* a filter that collects the kept statements back to front
RECURSIVE DropNone_Reversed(_)
DropNone_Reversed(statements) ==
    IF statements = <<>> THEN <<>>
    ELSE IF Head(statements) = None THEN DropNone_Reversed(Tail(statements))
    ELSE DropNone_Reversed(Tail(statements)) \o <<Head(statements)>>

\* line 103: [stmt for stmt in statements if stmt is not None]
RECURSIVE DropNone(_)
DropNone(statements) ==
    IF statements = <<>> THEN <<>>
    ELSE IF Head(statements) = None THEN DropNone(Tail(statements))
    ELSE <<Head(statements)>> \o DropNone(Tail(statements))

\* lines 113-117: _stmt_sets_win64_reg_arg
StmtSetsWin64RegArg(stmt) ==
    /\ stmt.kind = "Assignment"
    /\ stmt.dst.kind = "Register"
    /\ stmt.dst.reg_offset \in WIN64_REG_ARGS

\* line 107: [stmt for stmt in statements if not self._stmt_sets_win64_reg_arg(stmt)]
RECURSIVE DropWin64RegArgs(_)
DropWin64RegArgs(statements) ==
    IF statements = <<>> THEN <<>>
    ELSE IF StmtSetsWin64RegArg(Head(statements)) THEN DropWin64RegArgs(Tail(statements))
    ELSE <<Head(statements)>> \o DropWin64RegArgs(Tail(statements))

\* lines 105-107
RegPrune(a, statements) ==
    IF a = "AMD64" THEN DropWin64RegArgs(statements) ELSE statements

\* old_call.args[0] if old_call.args else None
FirstArg_OrNone(old_call) ==
    IF Len(old_call.args) = 0 THEN None ELSE old_call.args[1]

\* line 71: old_call.args[0], which raises IndexError on an empty argument list
FirstArg(old_call) ==
    IF Len(old_call.args) = 0 THEN IndexError ELSE old_call.args[1]

\* the string id and the length in each other's place
NewCall_Swapped(old_call, str_id, deobf_content, bits) ==
    Call(old_call.idx, "init_str",
         << FirstArg(old_call),
            Const(Len(deobf_content), bits, FALSE),
            Const(str_id, bits, TRUE) >>,
         old_call.ret_expr, old_call.tags)

\* lines 67-77
NewCall(old_call, str_id, deobf_content, bits) ==
    Call(old_call.idx, "init_str",
         << FirstArg(old_call),
            Const(str_id, bits, TRUE),
            Const(Len(deobf_content), bits, FALSE) >>,
         old_call.ret_expr, old_call.tags)

\* line 79
Substituted(statements, new_call) ==
    SubSeq(statements, 1, Len(statements) - 1) \o <<new_call>>

\* lines 81-103
StackPrune(statements, deobf_content) ==
    DropNone(SetNone(statements, StackMarked(statements, deobf_content)))

\* a copy that lands on the first block's address
BlockCopy_FixedAddr(b, statements) == [addr |-> 1, statements |-> statements]

\* line 110: block.copy(statements=statements) keeps the block's address
BlockCopy(b, statements) == [addr |-> b, statements |-> statements]

NoBlock == [addr |-> 0, statements |-> <<>>]

\* lines 58-111: the frame of one call of _process_block.  block, old and deobf_content
\* are its arguments, marked the positions line 101 sets to None, stack_pruned the list
\* after line 103, new_block what it returns; raised when line 71 raises.
ProcessBlock(b, statements, deobf_content, a, strings) ==
    LET old_call == statements[Len(statements)]
        str_id == AllocateId(strings, deobf_content)
        new_call == NewCall(old_call, str_id, deobf_content, ArchBits(a))
        subst == Substituted(statements, new_call)
        stack_pruned == StackPrune(subst, deobf_content)
    IN IF FirstArg(old_call) = IndexError
       THEN [block |-> b, old |-> statements, deobf_content |-> deobf_content,
             raised |-> TRUE, marked |-> {}, stack_pruned |-> <<>>, new_block |-> NoBlock]
       ELSE [block |-> b, old |-> statements, deobf_content |-> deobf_content,
             raised |-> FALSE,
             marked |-> StackMarked(subst, deobf_content),
             stack_pruned |-> stack_pruned,
             new_block |-> BlockCopy(b, RegPrune(a, stack_pruned))]

NoFrame ==
    [block |-> 0, old |-> <<>>, deobf_content |-> <<>>,
     raised |-> FALSE, marked |-> {}, stack_pruned |-> <<>>, new_block |-> NoBlock]

-----------------------------------------------------------------------------
(* _check, _analyze *)

\* lines 39-42
Check(m) == DOMAIN m # {}

\* lines 48-51
Qualifies(statements, m) ==
    /\ statements # <<>>
    /\ statements[Len(statements)].kind = "Call"
    /\ statements[Len(statements)].tags.ins_addr \in DOMAIN m

\* OptimizationPass._update_block: the new block takes the old one's place
UpdateBlock(g, b, new_block) ==
    [x \in ((DOMAIN g) \ {b}) \cup {new_block.addr} |->
        IF x = new_block.addr THEN new_block.statements ELSE g[x]]

-----------------------------------------------------------------------------
(* The inputs *)

KeyedAddr == 4198400
OtherAddr == 4198500

Contents == UNION { [1..n -> {65}] : n \in 0..MaxContentLen }

Maps == { EmptyDict } \cup { [x \in {KeyedAddr} |-> c] : c \in Contents }

ByteStore(o) == Store(StackBaseOffset(o), Const(65, 8, FALSE))

AssignReg(name) == Assignment(Register(ArchAMD64_registers[name]), Tmp)

\* statements for the stack-write step: byte stores at four offsets, three stores the
\* scan must pass over, one argument-register write
StackBody ==
    { ByteStore(o) : o \in {-32, -28, -24, -16} }
    \cup { Store(StackBaseOffset(-24), Const(256, 16, FALSE)),
           Store(StackBaseOffset(-24), Tmp),
           Store(Register(ArchAMD64_registers["rbx"]), Const(65, 8, FALSE)),
           AssignReg("rcx") }

\* statements for the register-write step
MixedBody ==
    { AssignReg(r) : r \in {"rcx", "rdx", "r8", "r9", "rax"} }
    \cup { Assignment(Tmp, Register(ArchAMD64_registers["rcx"])),
           ByteStore(-32), ByteStore(-24) }

GraphBody == { ByteStore(-32), AssignReg("rdx") }

LastStmts ==
    { Call(7, "deobfuscate_string", <<StackBaseOffset(-64), Tmp>>, Tmp, [ins_addr |-> KeyedAddr]),
      Call(7, "deobfuscate_string", <<>>, Tmp, [ins_addr |-> KeyedAddr]),
      Call(8, "memcpy", <<Tmp>>, Tmp, [ins_addr |-> OtherAddr]) }

SeqsUpTo(S, n) == UNION { [1..k -> S] : k \in 0..n }

BlocksOver(body, last) ==
    SeqsUpTo(body, MaxBody)
    \cup { s \o <<l>> : s \in SeqsUpTo(body, MaxBody), l \in last }

Orders(S) == { s \in [1..Cardinality(S) -> S] : \A i, j \in DOMAIN s : s[i] = s[j] => i = j }

InitWith(blocks, addrs, strings) ==
    /\ arch \in {"AMD64", "X86"}
    /\ type3_deobfuscated_strings \in Maps
    /\ custom_strings \in strings
    /\ graph \in [addrs -> blocks]
    /\ todo = <<>>
    /\ pc = "idle"
    /\ runs = 0
    /\ updated = {}
    /\ pb = NoFrame

Init ==
    InitWith(BlocksOver(MixedBody, LastStmts), {1}, {<<>>, << <<65, 65, 65>>, <<>> >>})

InitStack == InitWith(BlocksOver(StackBody, LastStmts), {1}, {<<>>})

InitGraph == InitWith(BlocksOver(GraphBody, LastStmts), {1, 2}, {<<>>})

-----------------------------------------------------------------------------
(* The pass *)

\* OptimizationPass.analyze, called by __init__ (line 37): _check, then _analyze
analyze ==
    /\ pc \in {"idle", "raised"}
    /\ runs < MaxRuns
    /\ IF Check(type3_deobfuscated_strings)
       THEN /\ \E order \in Orders(DOMAIN graph) : todo' = order
            /\ pc' = "running"
            /\ runs' = runs
       ELSE /\ todo' = <<>>
            /\ pc' = "idle"
            /\ runs' = runs + 1
    /\ updated' = {}
    /\ UNCHANGED <<arch, type3_deobfuscated_strings, custom_strings, graph, pb>>

\* one iteration of the for loop of _analyze (lines 47-56)
AnalyzeBlock ==
    /\ pc = "running"
    /\ todo # <<>>
    /\ LET b == Head(todo)
           statements == graph[b]
           finished == Tail(todo) = <<>>
       IN IF ~Qualifies(statements, type3_deobfuscated_strings)
          THEN /\ todo' = Tail(todo)
               /\ pc' = IF finished THEN "idle" ELSE "running"
               /\ runs' = IF finished THEN runs + 1 ELSE runs
               /\ UNCHANGED <<custom_strings, graph, updated, pb>>
          ELSE LET deobf_content ==
                       type3_deobfuscated_strings[statements[Len(statements)].tags.ins_addr]
               IN /\ custom_strings' = AllocateStore(custom_strings, deobf_content)
                  /\ pb' = ProcessBlock(b, statements, deobf_content, arch, custom_strings)
                  /\ IF pb'.raised
                     THEN /\ todo' = <<>>
                          /\ pc' = "raised"
                          /\ runs' = runs + 1
                          /\ UNCHANGED <<graph, updated>>
                     ELSE /\ graph' = UpdateBlock(graph, b, pb'.new_block)
                          /\ updated' = updated \cup {b}
                          /\ todo' = Tail(todo)
                          /\ pc' = IF finished THEN "idle" ELSE "running"
                          /\ runs' = IF finished THEN runs + 1 ELSE runs
    /\ UNCHANGED <<arch, type3_deobfuscated_strings>>

Next == analyze \/ AnalyzeBlock

Spec == Init /\ [][Next]_vars

SpecStack == InitStack /\ [][Next]_vars

SpecGraph == InitGraph /\ [][Next]_vars

-----------------------------------------------------------------------------
(* Vocabulary of the properties *)

LastOf(s) == s[Len(s)]

FrontOf(s) == SubSeq(s, 1, Len(s) - 1)

\* the statements of s at the positions K, in the order of s
KeepOnly(s, K) ==
    [j \in 1..Cardinality(K) |->
        s[CHOOSE i \in K : Cardinality({x \in K : x <= i}) = j]]

MaxOf(S) == CHOOSE x \in S : \A y \in S : y <= x

MinOf(S) == CHOOSE x \in S : \A y \in S : x <= y

\* the latest _process_block call returned a block, and the graph holds it
Rewritten == pb.block # 0 /\ ~pb.raised

\* positions of the stores of a constant <= 0xFF to a stack-relative address
BytePositions(s) ==
    { i \in 1..Len(s) : /\ s[i].kind = "Store"
                        /\ s[i].addr.kind = "StackBaseOffset"
                        /\ s[i].data.kind = "Const"
                        /\ s[i].data.value <= 255 }

ByteOffsets(s) == { s[i].addr.offset : i \in BytePositions(s) }

\* the position recorded for offset o: the last such store to it
RecordedAt(s, o) == MaxOf({ i \in BytePositions(s) : s[i].addr.offset = o })

\* the runs of d + 1 offsets, adjacent in ascending order, whose ends are 8 * d apart
Windows(S, d) ==
    { W \in SUBSET S :
        /\ Cardinality(W) = d + 1
        /\ \E lo, hi \in W : /\ W = { z \in S : lo <= z /\ z <= hi }
                            /\ lo + 8 * d = hi }

-----------------------------------------------------------------------------
(* C1: applying the pass a second time leaves the block graph as the first run left  *)
(* it: once a run has finished, no later step of the pass changes a block.           *)
C1_Idempotent == [][runs >= 1 => graph' = graph]_vars

-----------------------------------------------------------------------------
(* C2: a block that is empty, or whose last statement is not a Call, or is a Call    *)
(* whose source address is no key of the Deobfuscation Map, keeps its statements and *)
(* is never handed to _update_block, whatever happens to the other blocks.           *)
C2_NonQualifying(s) ==
    \/ s = <<>>
    \/ LastOf(s).kind # "Call"
    \/ /\ LastOf(s).kind = "Call"
       /\ LastOf(s).tags.ins_addr \notin DOMAIN type3_deobfuscated_strings

C2_NoOp ==
    [][\A b \in DOMAIN graph :
          C2_NonQualifying(graph[b]) =>
              /\ b \in DOMAIN graph'
              /\ graph'[b] = graph[b]
              /\ b \notin updated']_vars

\* a finished run that replaced one block and left a block ending in an unrelated call
C2_Witness ==
    /\ pc = "idle"
    /\ runs >= 1
    /\ \E b, c \in DOMAIN graph :
          /\ b \in updated
          /\ c \notin updated
          /\ Len(graph[c]) >= 2
          /\ C2_NonQualifying(graph[c])
          /\ LastOf(graph[c]).kind = "Call"

-----------------------------------------------------------------------------
(* C3: the last statement of a rewritten block is a call named init_str with exactly *)
(* three arguments: the old call's first argument, a custom-string constant holding  *)
(* the id the allocator has for the decoded bytes, and a constant equal to their     *)
(* length; its return binding is the old call's. No pruning step removes it.         *)
C3_CallShape ==
    Rewritten =>
        /\ graph[pb.block] # <<>>
        /\ LET call == LastOf(graph[pb.block])
               old_call == LastOf(pb.old)
           IN /\ call.kind = "Call"
              /\ call.target = "init_str"
              /\ Len(call.args) = 3
              /\ call.args[1] = old_call.args[1]
              /\ call.args[2].kind = "Const"
              /\ call.args[2].custom_string = TRUE
              /\ call.args[2].value + 1 \in 1..Len(custom_strings)
              /\ custom_strings[call.args[2].value + 1] = pb.deobf_content
              /\ call.args[3].kind = "Const"
              /\ call.args[3].value = Len(pb.deobf_content)
              /\ call.ret_expr = old_call.ret_expr

\* on AMD64, both pruning steps removed statements and the string got a fresh id
C3_Witness ==
    /\ Rewritten
    /\ arch = "AMD64"
    /\ pb.marked # {}
    /\ Len(pb.new_block.statements) < Len(pb.stack_pruned)
    /\ LastOf(graph[pb.block]).args[2].value = 2
    /\ LastOf(pb.old).target = "deobfuscate_string"

-----------------------------------------------------------------------------
(* C4: with decoded length n > 2 and k >= 1 collected offsets, d = min(n - 2, k - 1), *)
(* the stack-write step removes exactly the stores recorded for the first window of  *)
(* d + 1 ascending offsets whose ends are 8 * d apart, and nothing when there is no  *)
(* such window; the other statements stay, and the new call stays last.              *)
C4_Expected(s, n) ==
    LET S == ByteOffsets(s)
        d == IF n - 2 <= Cardinality(S) - 1 THEN n - 2 ELSE Cardinality(S) - 1
        W == Windows(S, d)
    IN IF W = {} THEN {}
       ELSE LET first == CHOOSE w \in W : \A v \in W : MinOf(w) <= MinOf(v)
            IN { RecordedAt(s, o) : o \in first }

C4_WindowPruning ==
    (Rewritten /\ Len(pb.deobf_content) > 2 /\ ByteOffsets(pb.old) # {}) =>
        LET removed == C4_Expected(pb.old, Len(pb.deobf_content))
        IN /\ pb.marked = removed
           /\ FrontOf(pb.stack_pruned) =
                 KeepOnly(pb.old, (1..(Len(pb.old) - 1)) \ removed)
           /\ LastOf(pb.stack_pruned) = LastOf(graph[pb.block])
           /\ LastOf(pb.stack_pruned).target = "init_str"

\* stores at -0x20, -0x18, -0x10 and 3 decoded bytes: the stores at -0x20 and -0x18 go
C4_Witness ==
    /\ Rewritten
    /\ arch = "X86"
    /\ Len(pb.deobf_content) = 3
    /\ Len(pb.old) = 4
    /\ ByteOffsets(pb.old) = {-32, -24, -16}
    /\ LastOf(pb.old).target = "deobfuscate_string"
    /\ Len(graph[pb.block]) = 2
    /\ graph[pb.block][1].kind = "Store"
    /\ graph[pb.block][1].addr.offset = -16
    /\ graph[pb.block][2].target = "init_str"

-----------------------------------------------------------------------------
(* C5: on AMD64 a rewrite removes every Assignment to the registers rcx, rdx, r8 and *)
(* r9 and keeps every other Assignment; on another architecture it keeps them all.    *)
C5_ArgRegs == { ArchAMD64_registers[r] : r \in {"rcx", "rdx", "r8", "r9"} }

C5_IsAssignment(stmt) == stmt.kind = "Assignment"

C5_IsOtherAssignment(stmt) ==
    /\ stmt.kind = "Assignment"
    /\ ~(stmt.dst.kind = "Register" /\ stmt.dst.reg_offset \in C5_ArgRegs)

C5_RegisterScope ==
    Rewritten =>
        SelectSeq(graph[pb.block], C5_IsAssignment) =
            IF arch = "AMD64"
            THEN SelectSeq(pb.old, C5_IsOtherAssignment)
            ELSE SelectSeq(pb.old, C5_IsAssignment)

\* on AMD64: argument-register writes first and last in the body, a write to rax kept
C5_Witness ==
    /\ Rewritten
    /\ arch = "AMD64"
    /\ Len(pb.old) = 4
    /\ pb.old[1] = Assignment(Register(88), Tmp)
    /\ pb.old[2] = Assignment(Register(16), Tmp)
    /\ pb.old[3] = Assignment(Register(24), Tmp)
    /\ Len(graph[pb.block]) = 2
    /\ graph[pb.block][1] = pb.old[2]

-----------------------------------------------------------------------------
(* C6: when the decoded bytes have length 0, 1 or 2, the rewrite marks no statement  *)
(* for the stack-write step and removes no Store from the block.                     *)
C6_IsStore(stmt) == stmt.kind = "Store"

C6_ShortStrings ==
    (Rewritten /\ Len(pb.deobf_content) <= 2) =>
        /\ pb.marked = {}
        /\ SelectSeq(graph[pb.block], C6_IsStore) = SelectSeq(pb.old, C6_IsStore)

\* 2 decoded bytes and byte stores 8 apart: both stores are still in the block
C6_Witness ==
    /\ Rewritten
    /\ Len(pb.deobf_content) = 2
    /\ {-32, -24} \subseteq ByteOffsets(pb.old)
    /\ {-32, -24} \subseteq ByteOffsets(graph[pb.block])

-----------------------------------------------------------------------------
(* C7: in a rewritten block, the statements before the new call are a subsequence of *)
(* the old block's statements before its last one: unmodified, in their old order.   *)
C7_OrderPreserved ==
    Rewritten =>
        \E K \in SUBSET (1..(Len(pb.old) - 1)) :
            FrontOf(graph[pb.block]) = KeepOnly(pb.old, K)

\* a statement was removed and two different statements are left before the call
C7_Witness ==
    /\ Rewritten
    /\ Len(graph[pb.block]) = 3
    /\ Len(pb.old) = 4
    /\ graph[pb.block][1] # graph[pb.block][2]

-----------------------------------------------------------------------------
(* C8: when the loop reaches a qualifying block whose last Call has no arguments, the *)
(* rewrite raises: no init_str call is made and the block is not replaced.            *)
C8_Malformed(s) ==
    /\ s # <<>>
    /\ LastOf(s).kind = "Call"
    /\ LastOf(s).tags.ins_addr \in DOMAIN type3_deobfuscated_strings
    /\ Len(LastOf(s).args) = 0

C8_FailsFast ==
    [][(pc = "running" /\ todo # <<>> /\ C8_Malformed(graph[Head(todo)])) =>
          /\ pc' = "raised"
          /\ graph' = graph
          /\ updated' = updated]_vars

\* the run rewrote one block, then raised on the other, which is as it was
C8_Witness ==
    /\ pc = "raised"
    /\ pb.raised
    /\ updated # {}
    /\ pb.block \notin updated
    /\ graph[pb.block] = pb.old
    /\ LastOf(graph[pb.block]).target = "deobfuscate_string"

-----------------------------------------------------------------------------
(* C9: whenever the stack-write step removes stores, each two consecutive offsets of *)
(* the removed stores differ by exactly 8.                                            *)
C9_EvenSpacing ==
    (Rewritten /\ pb.marked # {}) =>
        LET R == { pb.old[i].addr.offset : i \in pb.marked }
        IN \A z \in R : z = MaxOf(R) \/ z + 8 \in R

-----------------------------------------------------------------------------
(* C10: with decoded length > 2 and byte stores to exactly one offset, the stack-write *)
(* step removes exactly one statement, the last of those stores; the earlier ones     *)
(* stay where they were.                                                              *)
C10_SingleOffset ==
    (Rewritten /\ Len(pb.deobf_content) > 2 /\ Cardinality(ByteOffsets(pb.old)) = 1) =>
        LET last == MaxOf(BytePositions(pb.old))
        IN /\ pb.marked = {last}
           /\ Len(pb.stack_pruned) = Len(pb.old) - 1
           /\ \A i \in 1..(last - 1) : pb.stack_pruned[i] = pb.old[i]
           /\ \A i \in (last + 1)..(Len(pb.old) - 1) : pb.stack_pruned[i - 1] = pb.old[i]

\* two byte stores to -0x20 around another statement: the first one is kept
C10_Witness ==
    /\ Rewritten
    /\ Len(pb.deobf_content) > 2
    /\ BytePositions(pb.old) = {1, 3}
    /\ ByteOffsets(pb.old) = {-32}
    /\ Len(pb.stack_pruned) = 3
    /\ pb.stack_pruned[1] = pb.old[1]
    /\ pb.stack_pruned[2] = pb.old[2]

====
